---- MODULE Spec2Model ----
(***************************************************************************)
(* Model of the Polymarket 5-minute arbitrage bot:                         *)
(*   - OrderBookMonitor  (src/src/monitor/orderbook.rs)                    *)
(*   - ScalpState        (src/src/scalp.rs)                                *)
(*   - the session loop of main (src/src/main.rs)                          *)
(*                                                                         *)
(* Option<T> is a sequence of length at most one: None = <<>>,             *)
(* Some(x) = <<x>>.  A HashMap/DashMap is a total function into Option.    *)
(* A Decimal price is an integer number of ticks of 1/PriceScale; a mid    *)
(* price (bid + ask) / 2 is kept in half ticks, so that the division by    *)
(* two is exact as it is for rust_decimal.                                 *)
(***************************************************************************)
EXTENDS Integers, Sequences, FiniteSets, TLC

VARIABLES
    pc,               \* position of main: "top" (line 80), "inner" (line 99), "exited", "panicked"
    enable_scalping,  \* config.enable_scalping
    stream,           \* number of streams built so far; the current stream's identity
    market_map,       \* OrderBookMonitor.market_map : market_id -> Option<(yes, no)>
    books,            \* OrderBookMonitor.books      : asset_id  -> Option<BookUpdate>
    last_mid_price,   \* ScalpState.last_mid_price   : market_id -> Option<Decimal>
    positions,        \* ScalpState.positions        : market_id -> Option<ScalpPosition>
    trades_today,     \* ScalpState.trades_today
    now,              \* the monotonic clock read by Instant::now()
    tasks,            \* execution tasks spawned by tokio::spawn and not yet finished
    last,             \* the operation performed by the last step, with its result
    hist              \* what the feed delivered so far (history, not program state)

vars == << pc, enable_scalping, stream, market_map, books, last_mid_price,
           positions, trades_today, now, tasks, last, hist >>

(***************************************************************************)
(* Bounds of the model.                                                    *)
(***************************************************************************)
MaxStreams == 2    \* streams (sessions) built in one run
MaxMsgs == 4       \* book updates delivered by the feed in one run
MaxTasks == 1      \* execution tasks in flight at once
MaxTrades == 3     \* open_position calls in one run of the ScalpState model
MaxTime == 2       \* clock ticks in one run of the ScalpState model

(***************************************************************************)
(* Option and identifiers.                                                 *)
(***************************************************************************)
None == << >>
Some(x) == << x >>
IsSome(o) == Len(o) = 1
Unwrap(o) == o[1]

Markets == {"mA", "mB"}        \* B256 market ids
Instruments == 1..4            \* U256 token ids

\* MarketInfo values handed out by the scheduler.
MarketInfo(m, y, n) == [market_id |-> m, yes_token_id |-> y, no_token_id |-> n]
InfoA == MarketInfo("mA", 1, 2)
InfoB == MarketInfo("mB", 3, 4)

\* The non-empty market lists MarketScheduler::get_markets_immediately_or_wait
\* may return: each market has two tokens of its own.
MarketLists == { << InfoA >>, << InfoA, InfoB >> }


(***************************************************************************)
(* BookUpdate.  bids and asks are the level lists of the update; only the  *)
(* price of a level is modelled, in ticks of 0.001.  BookShapes are the    *)
(* level lists the feed may deliver.                                       *)
(***************************************************************************)
Shape(bids, asks) == [bids |-> bids, asks |-> asks]

S500 == Shape(<< 500 >>, << 500 >>)     \* mid 0.500
S502 == Shape(<< 500 >>, << 502 >>)     \* mid 0.501 : +0.2% on 0.500
S495 == Shape(<< 493 >>, << 495 >>)     \* ask 0.495 : 0.495 + 0.495 = 0.990, 0.495 + 0.500 = 0.995
SZero == Shape(<< 0 >>, << 0 >>)        \* mid 0
SNoBid == Shape(<< >>, << 500 >>)
SNoAsk == Shape(<< 500 >>, << >>)

\* The updates the feed delivers to main in Spec.
BookShapes == { S500, S495 }

BookUpdate(i, s) == [asset_id |-> i, bids |-> s.bids, asks |-> s.asks]

Abs(x) == IF x < 0 THEN -x ELSE x

(***************************************************************************)
(* OrderBookMonitor                                                        *)
(***************************************************************************)
OrderBookMonitor_new ==
    [ books      |-> [i \in Instruments |-> None],
      market_map |-> [m \in Markets |-> None] ]

subscribe_market(mm, market) ==
    [mm EXCEPT ![market.market_id] =
                   Some(<< market.yes_token_id, market.no_token_id >>)]

\* for m in &markets { monitor.subscribe_market(m)?; }
RECURSIVE SubscribeAll(_, _)
SubscribeAll(mm, list) ==
    IF list = << >> THEN mm
    ELSE SubscribeAll(subscribe_market(mm, Head(list)), Tail(list))

\* The token ids create_orderbook_stream subscribes the stream to.
token_ids(mm) ==
    UNION { { Unwrap(mm[m])[1], Unwrap(mm[m])[2] } : m \in { k \in Markets : IsSome(mm[k]) } }

\* self.books.insert(book.asset_id, book.clone())
\* Variant: the cache keeps the first update of a token (entry().or_insert).
books_insert_first(bks, book) ==
    IF IsSome(bks[book.asset_id]) THEN bks ELSE [bks EXCEPT ![book.asset_id] = Some(book)]

books_insert(bks, book) == [bks EXCEPT ![book.asset_id] = Some(book)]

OrderBookPair(yes_book, no_book, market_id) ==
    [yes_book |-> yes_book, no_book |-> no_book, market_id |-> market_id]

\* The body of the for loop of handle_book_update for one entry of market_map,
\* over the cache bks as it is after the insert: the pair this entry returns,
\* or None when the loop goes on to the next entry.
\* Variant: the YES arm looks up the YES token instead of the NO token.
MatchYesMutant(bks, book, market_id, yes, no) ==
    IF book.asset_id = yes
    THEN Some(OrderBookPair(book, Unwrap(bks[yes]), market_id))
    ELSE IF book.asset_id = no
         THEN IF IsSome(bks[yes])
              THEN Some(OrderBookPair(Unwrap(bks[yes]), book, market_id))
              ELSE None
         ELSE None

MatchEntry(bks, book, market_id, yes, no) ==
    IF book.asset_id = yes
    THEN IF IsSome(bks[no])
         THEN Some(OrderBookPair(book, Unwrap(bks[no]), market_id))
         ELSE None
    ELSE IF book.asset_id = no
         THEN IF IsSome(bks[yes])
              THEN Some(OrderBookPair(Unwrap(bks[yes]), book, market_id))
              ELSE None
         ELSE None

\* handle_book_update after the insert.  The loop visits the entries of a
\* HashMap in an order the program does not fix and returns at the first entry
\* that yields a pair: every entry that yields a pair may be that first one.
\* The result is the set of values the call may return.
handle_book_update(mm, bks, book) ==
    LET found == { MatchEntry(bks, book, m, Unwrap(mm[m])[1], Unwrap(mm[m])[2]) :
                       m \in { k \in Markets : IsSome(mm[k]) } } \ { None }
    IN  IF found = {} THEN { None } ELSE found

(***************************************************************************)
(* ScalpState                                                              *)
(***************************************************************************)
ScalpState_new ==
    [ last_mid_price |-> [m \in Markets |-> None],
      positions      |-> [m \in Markets |-> None],
      trades_today   |-> 0 ]

\* Decimal value of a level price, in half ticks (units of 0.0005).
Dec(price) == 2 * price

\* Variant: a missing side is read as a level at price 0.
mid_price_one_sided(book) ==
    LET bid == IF Len(book.bids) = 0 THEN 0 ELSE Head(book.bids)
        ask == IF Len(book.asks) = 0 THEN 0 ELSE Head(book.asks)
    IN  Some((Dec(bid) + Dec(ask)) \div 2)

\* (bid + ask) / Decimal::from(2), None when a side has no level.
mid_price(book) ==
    IF Len(book.bids) = 0 THEN None
    ELSE IF Len(book.asks) = 0 THEN None
    ELSE Some((Dec(Head(book.bids)) + Dec(Head(book.asks))) \div 2)

\* diff.abs() >= threshold_pct for diff = (mid - last) / last, last # 0, with
\* threshold_pct in thousandths.  The quotient is compared exactly: for tick
\* prices rust_decimal's 28-digit quotient is on the same side of a
\* three-digit threshold as the exact one.
SignalTest(mid, lastv, threshold_pct) ==
    Abs(mid - lastv) * 1000 >= threshold_pct * Abs(lastv)

\* Variant: a missing baseline is read as the smallest Decimal above 0, so
\* that the first call compares too.
detect_signal_first_signals(lmp, market_id, yes_book, threshold_pct) ==
    LET m == mid_price(yes_book) IN
    IF ~IsSome(m)
    THEN [panicked |-> FALSE, signal |-> FALSE, last_mid_price |-> lmp]
    ELSE LET mid == Unwrap(m)
             lastv == IF IsSome(lmp[market_id]) THEN Unwrap(lmp[market_id]) ELSE 1
         IN  IF lastv = 0
             THEN [panicked |-> TRUE, signal |-> FALSE, last_mid_price |-> lmp]
             ELSE [ panicked |-> FALSE,
                    signal |-> SignalTest(mid, lastv, threshold_pct),
                    last_mid_price |-> [lmp EXCEPT ![market_id] = Some(mid)] ]

\* detect_signal.  The result holds the returned signal, the new
\* last_mid_price map, and panicked = TRUE when the Decimal division
\* (mid - last) / last panics on last = 0 ("Division by zero"), in which case
\* nothing is returned and nothing is stored.
detect_signal(lmp, market_id, yes_book, threshold_pct) ==
    LET m == mid_price(yes_book) IN
    IF ~IsSome(m)
    THEN [panicked |-> FALSE, signal |-> FALSE, last_mid_price |-> lmp]
    ELSE LET mid == Unwrap(m) IN
         IF IsSome(lmp[market_id]) /\ Unwrap(lmp[market_id]) = 0
         THEN [panicked |-> TRUE, signal |-> FALSE, last_mid_price |-> lmp]
         ELSE [ panicked |-> FALSE,
                signal |-> IF IsSome(lmp[market_id])
                           THEN SignalTest(mid, Unwrap(lmp[market_id]), threshold_pct)
                           ELSE FALSE,
                last_mid_price |-> [lmp EXCEPT ![market_id] = Some(mid)] ]

\* ScalpPosition { entry_price, size_usdc, opened_at: Instant::now() }
ScalpPosition(entry_price, size_usdc, opened_at) ==
    [entry_price |-> entry_price, size_usdc |-> size_usdc, opened_at |-> opened_at]

\* Variant: the positions of a market are a list that open_position extends.
open_position_push(st, market_id, entry_price, size_usdc, t) ==
    [st EXCEPT !.positions[market_id] =
                   Append(st.positions[market_id], ScalpPosition(entry_price, size_usdc, t)),
               !.trades_today = st.trades_today + 1]

\* Variant: replacing an open position is not counted as a trade.
open_position_uncounted(st, market_id, entry_price, size_usdc, t) ==
    [st EXCEPT !.positions[market_id] = Some(ScalpPosition(entry_price, size_usdc, t)),
               !.trades_today = IF IsSome(st.positions[market_id])
                                THEN st.trades_today ELSE st.trades_today + 1]

open_position(st, market_id, entry_price, size_usdc, t) ==
    [st EXCEPT !.positions[market_id] = Some(ScalpPosition(entry_price, size_usdc, t)),
               !.trades_today = st.trades_today + 1]

\* Variant: closing a market closes every position.
close_position_all(st, market_id) ==
    [st EXCEPT !.positions = [m \in DOMAIN st.positions |-> None]]

\* Variant: every close gives a trade back, whether a position was open or not.
close_position_uncount(st, market_id) ==
    [st EXCEPT !.positions[market_id] = None,
               !.trades_today = IF st.trades_today > 0
                                THEN st.trades_today - 1 ELSE 0]

\* Variant: closing a position gives its trade back to the budget.
close_position_refund(st, market_id) ==
    [st EXCEPT !.positions[market_id] = None,
               !.trades_today = IF IsSome(st.positions[market_id])
                                THEN st.trades_today - 1 ELSE st.trades_today]

close_position(st, market_id) ==
    [st EXCEPT !.positions[market_id] = None]

get_position(st, market_id) == st.positions[market_id]

\* Variant: the budget check lets one trade too many through.
can_open_trade_inclusive(st, max_trades_per_day) ==
    st.trades_today <= max_trades_per_day

\* self.trades_today < max_trades_per_day
can_open_trade(st, max_trades_per_day) ==
    st.trades_today < max_trades_per_day

\* Variant: a position expires only strictly after max_hold.
is_expired_strict(st, market_id, max_hold, t) ==
    IF IsSome(st.positions[market_id])
    THEN t - Unwrap(st.positions[market_id]).opened_at > max_hold
    ELSE FALSE

\* positions.get(market_id).map(|p| p.opened_at.elapsed() >= max_hold)
\*     .unwrap_or(false), where t is the reading of the monotonic clock.
is_expired(st, market_id, max_hold, t) ==
    IF IsSome(st.positions[market_id])
    THEN t - Unwrap(st.positions[market_id]).opened_at >= max_hold
    ELSE FALSE

(***************************************************************************)
(* Configuration (defaults of Config::from_env), in ticks of 0.001, and    *)
(* the thresholds main passes to the momentum detector, in thousandths.    *)
(***************************************************************************)
MinProfitThreshold == 1          \* min_profit_threshold = 0.001
ArbitrageExecutionSpread == 10   \* arbitrage_execution_spread = 0.01
ScalpThreshold1 == 2             \* dec!(0.002)
ScalpThreshold2 == 3             \* dec!(0.003)

(***************************************************************************)
(* ArbitrageDetector::check_arbitrage (crate::monitor, not among the       *)
(* sources): the opportunity of a pair, when both sides have a best ask    *)
(* and profit_fraction = 1 - (yes_ask + no_ask) >= profit_threshold.       *)
(***************************************************************************)
ArbitrageOpportunity(market_id, yes_token_id, no_token_id, yes_ask, no_ask) ==
    [ market_id |-> market_id,
      yes_token_id |-> yes_token_id, no_token_id |-> no_token_id,
      yes_ask_price |-> yes_ask, no_ask_price |-> no_ask,
      profit_percentage |-> 1000 - (yes_ask + no_ask) ]

check_arbitrage(yes_book, no_book, market_id) ==
    IF Len(yes_book.asks) = 0 \/ Len(no_book.asks) = 0 THEN None
    ELSE LET opp == ArbitrageOpportunity(market_id, yes_book.asset_id, no_book.asset_id,
                                         Head(yes_book.asks), Head(no_book.asks))
         IN  IF opp.profit_percentage >= MinProfitThreshold THEN Some(opp) ELSE None

(***************************************************************************)
(* main: what the loop does with one pair (lines 104-154).                 *)
(***************************************************************************)
\* Variant: no execution gate, every detected opportunity is executed.
ExecGateMutant(opp) == TRUE

\* total_price <= exec_threshold, exec_threshold = 1.0 - arbitrage_execution_spread
ExecGate(opp) ==
    opp.yes_ask_price + opp.no_ask_price <= 1000 - ArbitrageExecutionSpread

\* One call of the momentum detector as the loop observes it.
DetectCall(lmp, market_id, yes_book, threshold_pct) ==
    LET r == detect_signal(lmp, market_id, yes_book, threshold_pct) IN
    [ market |-> market_id, mid |-> mid_price(yes_book), baseline |-> lmp[market_id],
      threshold |-> threshold_pct, signal |-> r.signal, panicked |-> r.panicked,
      stored |-> r.last_mid_price[market_id] ]

\* The detector calls of lines 104-118 and the arbitrage check of lines
\* 121-154 for one pair.  A panic of a detector call ends the handler there.
OnPair(pair, lmp, scalping) ==
    LET r1 == detect_signal(lmp, pair.market_id, pair.yes_book, ScalpThreshold1)
        c1 == DetectCall(lmp, pair.market_id, pair.yes_book, ScalpThreshold1)
        r2 == detect_signal(r1.last_mid_price, pair.market_id, pair.yes_book, ScalpThreshold2)
        c2 == DetectCall(r1.last_mid_price, pair.market_id, pair.yes_book, ScalpThreshold2)
        opp == check_arbitrage(pair.yes_book, pair.no_book, pair.market_id)
        done(lmp2, calls) ==
            [ panicked |-> FALSE, last_mid_price |-> lmp2, calls |-> calls, opp |-> opp,
              spawn |-> IF IsSome(opp) THEN ExecGate(Unwrap(opp)) ELSE FALSE ]
        dead(lmp2, calls) ==
            [ panicked |-> TRUE, last_mid_price |-> lmp2, calls |-> calls, opp |-> None,
              spawn |-> FALSE ]
    IN  IF r1.panicked THEN dead(lmp, << c1 >>)
        ELSE IF ~scalping THEN done(r1.last_mid_price, << c1 >>)
        ELSE IF r2.panicked THEN dead(r1.last_mid_price, << c1, c2 >>)
        ELSE done(r2.last_mid_price, << c1, c2 >>)

(***************************************************************************)
(* The record of the last step and the history of the feed.                *)
(***************************************************************************)
Op(name) ==
    [ op |-> name, market |-> "", book |-> None, ret |-> None, calls |-> << >>,
      opp |-> None, spawned |-> FALSE, panicked |-> FALSE,
      rm_calls |-> << >>,    \* calls made to the RiskManager
      arg |-> 0,             \* max_trades_per_day or max_hold of a ScalpState query
      ok |-> FALSE,          \* the boolean a ScalpState query returned
      had |-> FALSE,         \* the market had an open position when the call began
      twice |-> "" ]         \* "after_close" / "after_noop": the call repeats the
                             \* close_position of the step before, which closed a
                             \* position / found none

NoHistory ==
    [ msgs |-> 0,                                \* updates delivered so far
      dead |-> {},                               \* streams that ended or failed
      observed |-> {},                           \* tokens updated in the current stream
      latest |-> [i \in Instruments |-> None],   \* latest update of each token, current stream
      overwritten |-> {},                        \* tokens whose latest update replaced a different one
      detected |-> {},                           \* markets given to the detector, current stream
      first_detect |-> FALSE,                    \* the last step gave its market to the detector
                                                 \* for the first time in the current stream
      prev_detected |-> {},                      \* markets given to the detector, previous stream
      guarded |-> TRUE,                          \* every open_position of this ScalpState came
                                                 \* right after can_open_trade returned true
      cap |-> 0,                                 \* largest max_trades_per_day of those checks
      lost |-> 0 ]                               \* positions of this ScalpState closed or replaced

\* rm.register_order_pair(result, opp.market_id, opp.yes_token_id, opp.no_token_id,
\*                        opp.yes_ask_price, opp.no_ask_price)
register_order_pair(opp) ==
    [ call |-> "register_order_pair", market_id |-> opp.market_id,
      yes_token_id |-> opp.yes_token_id, no_token_id |-> opp.no_token_id,
      yes_ask_price |-> opp.yes_ask_price, no_ask_price |-> opp.no_ask_price ]

RemoveAt(seq, k) == [j \in 1..(Len(seq) - 1) |-> IF j < k THEN seq[j] ELSE seq[j + 1]]

(***************************************************************************)
(* Initial state: main before its loop (lines 43-77).                      *)
(***************************************************************************)
Init ==
    /\ pc = "top"
    /\ enable_scalping \in BOOLEAN
    /\ stream = 0
    /\ market_map = OrderBookMonitor_new.market_map
    /\ books = OrderBookMonitor_new.books
    /\ last_mid_price = ScalpState_new.last_mid_price
    /\ positions = ScalpState_new.positions
    /\ trades_today = ScalpState_new.trades_today
    /\ now = 0
    /\ tasks = << >>
    /\ last = Op("init")
    /\ hist = NoHistory

(***************************************************************************)
(* main, top of the outer loop (lines 80-96).                              *)
(***************************************************************************)
\* get_markets_immediately_or_wait()? or create_orderbook_stream()? returns an
\* error: main returns it and the process ends.
MainExit ==
    /\ pc = "top"
    /\ pc' = "exited"
    /\ last' = Op("exit")
    /\ UNCHANGED << enable_scalping, stream, market_map, books, last_mid_price,
                    positions, trades_today, now, tasks, hist >>

\* markets.is_empty(): warn, sleep 30 s, continue.
NoMarkets ==
    /\ pc = "top"
    /\ last' = Op("no_markets")
    /\ UNCHANGED << pc, enable_scalping, stream, market_map, books, last_mid_price,
                    positions, trades_today, now, tasks, hist >>

\* let mut monitor = OrderBookMonitor::new(); (line 89): the book cache of the
\* new session, given the cache the previous session left.
\* Variant: the monitor of the previous session is used again.
SessionBooksKept(prev) == prev

SessionBooks(prev) == OrderBookMonitor_new.books

\* A non-empty market list: a new monitor with every market subscribed, a new
\* stream, a new ScalpState.
StartSession(markets) ==
    /\ pc = "top"
    /\ stream < MaxStreams
    /\ pc' = "inner"
    /\ stream' = stream + 1
    /\ market_map' = SubscribeAll(OrderBookMonitor_new.market_map, markets)
    /\ books' = SessionBooks(books)
    /\ last_mid_price' = ScalpState_new.last_mid_price
    /\ positions' = ScalpState_new.positions
    /\ trades_today' = ScalpState_new.trades_today
    /\ last' = Op("start")
    /\ hist' = [NoHistory EXCEPT !.msgs = hist.msgs, !.dead = hist.dead,
                                  !.prev_detected = hist.detected]
    /\ UNCHANGED << enable_scalping, now, tasks >>

(***************************************************************************)
(* main, inner loop (lines 98-170).                                        *)
(***************************************************************************)
\* Some(Ok(book)): the whole handler of lines 103-155.
RecvBook(i, shape) ==
    /\ pc = "inner"
    /\ hist.msgs < MaxMsgs
    /\ i \in token_ids(market_map)
    /\ LET book == BookUpdate(i, shape)
           bks == books_insert(books, book)
           seen(ds) == [hist EXCEPT
                          !.msgs = hist.msgs + 1,
                          !.observed = hist.observed \cup { i },
                          !.latest[i] = Some(book),
                          !.overwritten =
                              IF IsSome(hist.latest[i]) /\ hist.latest[i] # Some(book)
                              THEN hist.overwritten \cup { i }
                              ELSE hist.overwritten,
                          !.detected = hist.detected \cup ds,
                          !.first_detect = (ds # {} /\ ds \cap hist.detected = {})]
       IN  /\ books' = bks
           /\ \E ret \in handle_book_update(market_map, bks, book) :
                IF ~IsSome(ret)
                THEN /\ last' = [Op("book") EXCEPT !.book = Some(book)]
                     /\ hist' = seen({})
                     /\ UNCHANGED << pc, last_mid_price, tasks >>
                ELSE LET o == OnPair(Unwrap(ret), last_mid_price, enable_scalping) IN
                     /\ o.spawn => Len(tasks) < MaxTasks
                     /\ last' = [Op("book") EXCEPT !.book = Some(book), !.ret = ret,
                                                  !.market = Unwrap(ret).market_id,
                                                  !.calls = o.calls, !.opp = o.opp,
                                                  !.spawned = o.spawn,
                                                  !.panicked = o.panicked]
                     /\ hist' = seen({ Unwrap(ret).market_id })
                     /\ pc' = IF o.panicked THEN "panicked" ELSE pc
                     /\ last_mid_price' = o.last_mid_price
                     /\ tasks' = IF o.spawn THEN Append(tasks, Unwrap(o.opp)) ELSE tasks
    /\ UNCHANGED << enable_scalping, stream, market_map, positions, trades_today, now >>

\* Variant: the error arm logs and goes on with the same stream.
StreamErrorContinue ==
    /\ pc = "inner"
    /\ last' = Op("stream_error")
    /\ UNCHANGED << pc, enable_scalping, stream, market_map, books, last_mid_price,
                    positions, trades_today, now, tasks, hist >>

\* Some(Err(e)): error!, break.
StreamError ==
    /\ pc = "inner"
    /\ pc' = "top"
    /\ last' = Op("stream_error")
    /\ hist' = [hist EXCEPT !.dead = hist.dead \cup { stream }]
    /\ UNCHANGED << enable_scalping, stream, market_map, books, last_mid_price,
                    positions, trades_today, now, tasks >>

\* None: warn, break.
StreamEnd ==
    /\ pc = "inner"
    /\ pc' = "top"
    /\ last' = Op("stream_end")
    /\ hist' = [hist EXCEPT !.dead = hist.dead \cup { stream }]
    /\ UNCHANGED << enable_scalping, stream, market_map, books, last_mid_price,
                    positions, trades_today, now, tasks >>

\* The sleep(1 s) branch of select!: nothing to do.
Tick ==
    /\ pc = "inner"
    /\ last' = Op("tick")
    /\ UNCHANGED << pc, enable_scalping, stream, market_map, books, last_mid_price,
                    positions, trades_today, now, tasks, hist >>

(***************************************************************************)
(* A spawned execution task (lines 139-152).                               *)
(***************************************************************************)
\* Variant: the task takes the executed YES book out of the shared cache.
TaskOkWrites(k) ==
    /\ pc \in { "top", "inner" }
    /\ k \in 1..Len(tasks)
    /\ tasks' = RemoveAt(tasks, k)
    /\ books' = [books EXCEPT ![tasks[k].yes_token_id] = None]
    /\ last' = [Op("task_ok") EXCEPT !.opp = Some(tasks[k]),
                                     !.rm_calls = << register_order_pair(tasks[k]) >>]
    /\ UNCHANGED << pc, enable_scalping, stream, market_map, last_mid_price,
                    positions, trades_today, now, hist >>

\* execute_arbitrage_pair returned Ok(result): rm.register_order_pair(...).
TaskOk(k) ==
    /\ pc \in { "top", "inner" }
    /\ k \in 1..Len(tasks)
    /\ tasks' = RemoveAt(tasks, k)
    /\ last' = [Op("task_ok") EXCEPT !.opp = Some(tasks[k]),
                                     !.rm_calls = << register_order_pair(tasks[k]) >>]
    /\ UNCHANGED << pc, enable_scalping, stream, market_map, books, last_mid_price,
                    positions, trades_today, now, hist >>

\* execute_arbitrage_pair returned Err: the if let does not match.
TaskErr(k) ==
    /\ pc \in { "top", "inner" }
    /\ k \in 1..Len(tasks)
    /\ tasks' = RemoveAt(tasks, k)
    /\ last' = [Op("task_err") EXCEPT !.opp = Some(tasks[k])]
    /\ UNCHANGED << pc, enable_scalping, stream, market_map, books, last_mid_price,
                    positions, trades_today, now, hist >>

Next ==
    \/ MainExit
    \/ NoMarkets
    \/ \E markets \in MarketLists : StartSession(markets)
    \/ \E i \in Instruments, shape \in BookShapes : RecvBook(i, shape)
    \/ StreamError
    \/ StreamEnd
    \/ Tick
    \/ \E k \in 1..MaxTasks : TaskOk(k)
    \/ \E k \in 1..MaxTasks : TaskErr(k)

Spec == Init /\ [][Next]_vars

(***************************************************************************)
(* The main loop under inputs that Spec leaves out: a market list whose    *)
(* entry names one token as both YES and NO (subscribe_market takes any    *)
(* MarketInfo), and a book whose best bid and best ask are 0.              *)
(***************************************************************************)
InfoSame == MarketInfo("mB", 3, 3)
AnyMarketLists == MarketLists \cup { << InfoSame >> }
AnyBookShapes == { S500, SZero }

AnyInputNext ==
    \/ MainExit
    \/ NoMarkets
    \/ \E markets \in AnyMarketLists : StartSession(markets)
    \/ \E i \in Instruments, shape \in AnyBookShapes : RecvBook(i, shape)
    \/ StreamError
    \/ StreamEnd
    \/ Tick
    \/ \E k \in 1..MaxTasks : TaskOk(k)
    \/ \E k \in 1..MaxTasks : TaskErr(k)

AnyInputSpec == Init /\ [][AnyInputNext]_vars

(***************************************************************************)
(* ScalpState on its own: the calls a session owner may make on the        *)
(* ScalpState of a session, in any order, and the construction of a new    *)
(* one when the next session starts (main, line 96).  main itself calls    *)
(* the detector only; the position calls are the rest of the public API.   *)
(***************************************************************************)
\* The YES books and thresholds given to detect_signal in ScalpSpec.
ScalpShapes == { S500, S502, SZero, SNoBid, SNoAsk }
Thresholds == { ScalpThreshold1, ScalpThreshold2 }
EntryPrices == { 500 }
Sizes == { 1 }
\* The max_trades_per_day given to can_open_trade and the max_hold given to
\* is_expired, in units of the clock.
TradeLimits == { 1, 2 }
MaxHolds == { 1, 2 }

ScalpState_get == [ last_mid_price |-> last_mid_price, positions |-> positions,
                    trades_today |-> trades_today ]

ScalpInit ==
    /\ pc = "inner"
    /\ enable_scalping = FALSE
    /\ stream = 1
    /\ market_map = SubscribeAll(OrderBookMonitor_new.market_map, << InfoA, InfoB >>)
    /\ books = OrderBookMonitor_new.books
    /\ last_mid_price = ScalpState_new.last_mid_price
    /\ positions = ScalpState_new.positions
    /\ trades_today = ScalpState_new.trades_today
    /\ now = 0
    /\ tasks = << >>
    /\ last = Op("start")
    /\ hist = NoHistory

\* let mut scalp = ScalpState::new(); at the start of the next session.
ScalpNew ==
    /\ pc = "inner"
    /\ last_mid_price' = ScalpState_new.last_mid_price
    /\ positions' = ScalpState_new.positions
    /\ trades_today' = ScalpState_new.trades_today
    /\ last' = Op("scalp_new")
    /\ hist' = NoHistory
    /\ UNCHANGED << pc, enable_scalping, stream, market_map, books, now, tasks >>

DetectSignal(market_id, shape, threshold_pct) ==
    /\ pc = "inner"
    /\ LET yes_book == BookUpdate(Unwrap(market_map[market_id])[1], shape)
           r == detect_signal(last_mid_price, market_id, yes_book, threshold_pct)
       IN  /\ last_mid_price' = r.last_mid_price
           /\ pc' = IF r.panicked THEN "panicked" ELSE pc
           /\ last' = [Op("detect_signal") EXCEPT
                          !.market = market_id, !.book = Some(yes_book),
                          !.panicked = r.panicked,
                          !.calls = << DetectCall(last_mid_price, market_id, yes_book,
                                                  threshold_pct) >>]
    /\ UNCHANGED << enable_scalping, stream, market_map, books, positions, trades_today,
                    now, tasks, hist >>

OpenPosition(market_id, entry_price, size_usdc) ==
    /\ pc = "inner"
    /\ trades_today < MaxTrades
    /\ LET st == open_position(ScalpState_get, market_id, entry_price, size_usdc, now)
       IN  /\ positions' = st.positions
           /\ trades_today' = st.trades_today
           /\ last_mid_price' = st.last_mid_price
    /\ last' = [Op("open_position") EXCEPT
                   !.market = market_id, !.had = IsSome(positions[market_id])]
    /\ LET checked == last.op = "can_open_trade" /\ last.ok
       IN  hist' = [hist EXCEPT
                       !.guarded = hist.guarded /\ checked,
                       !.cap = IF checked /\ last.arg > hist.cap THEN last.arg ELSE hist.cap,
                       !.lost = IF IsSome(positions[market_id])
                                THEN hist.lost + 1 ELSE hist.lost]
    /\ UNCHANGED << pc, enable_scalping, stream, market_map, books, now, tasks >>

ClosePosition(market_id) ==
    /\ pc = "inner"
    /\ LET st == close_position(ScalpState_get, market_id)
       IN  /\ positions' = st.positions
           /\ trades_today' = st.trades_today
           /\ last_mid_price' = st.last_mid_price
    /\ last' = [Op("close_position") EXCEPT
                   !.market = market_id, !.had = IsSome(positions[market_id]),
                   !.twice = IF last.op = "close_position" /\ last.market = market_id
                             THEN (IF last.had THEN "after_close" ELSE "after_noop")
                             ELSE ""]
    /\ hist' = [hist EXCEPT !.lost = IF IsSome(positions[market_id])
                                     THEN hist.lost + 1 ELSE hist.lost]
    /\ UNCHANGED << pc, enable_scalping, stream, market_map, books, now, tasks >>

\* can_open_trade(max_trades_per_day): a query, the state is left as it is.
CanOpenTrade(max_trades_per_day) ==
    /\ pc = "inner"
    /\ last' = [Op("can_open_trade") EXCEPT
                   !.arg = max_trades_per_day,
                   !.ok = can_open_trade(ScalpState_get, max_trades_per_day)]
    /\ UNCHANGED << pc, enable_scalping, stream, market_map, books, last_mid_price,
                    positions, trades_today, now, tasks, hist >>

\* is_expired(market_id, max_hold): a query, the state is left as it is.
IsExpired(market_id, max_hold) ==
    /\ pc = "inner"
    /\ last' = [Op("is_expired") EXCEPT
                   !.market = market_id, !.arg = max_hold,
                   !.had = IsSome(get_position(ScalpState_get, market_id)),
                   !.ok = is_expired(ScalpState_get, market_id, max_hold, now)]
    /\ UNCHANGED << pc, enable_scalping, stream, market_map, books, last_mid_price,
                    positions, trades_today, now, tasks, hist >>

\* Time passes on the monotonic clock.
AdvanceTime ==
    /\ pc = "inner"
    /\ now < MaxTime
    /\ now' = now + 1
    /\ last' = Op("time")
    /\ UNCHANGED << pc, enable_scalping, stream, market_map, books, last_mid_price,
                    positions, trades_today, tasks, hist >>

ScalpNext ==
    \/ ScalpNew
    \/ \E m \in Markets, shape \in ScalpShapes, t \in Thresholds : DetectSignal(m, shape, t)
    \/ \E m \in Markets, p \in EntryPrices, z \in Sizes : OpenPosition(m, p, z)
    \/ \E m \in Markets : ClosePosition(m)
    \/ \E x \in TradeLimits : CanOpenTrade(x)
    \/ \E m \in Markets, h \in MaxHolds : IsExpired(m, h)
    \/ AdvanceTime

ScalpSpec == ScalpInit /\ [][ScalpNext]_vars

(***************************************************************************)
(* Properties.                                                             *)
(***************************************************************************)
\* The registered markets one of whose two tokens is i.
MarketsOf(i) ==
    { m \in Markets : IsSome(market_map[m])
                      /\ i \in { Unwrap(market_map[m])[1], Unwrap(market_map[m])[2] } }

YesOf(m) == Unwrap(market_map[m])[1]
NoOf(m) == Unwrap(market_map[m])[2]

\* C1: an update for a token of a registered market returns a pair if and only
\* if both the YES and the NO token of that market have been observed in the
\* session, this update included; the pair is that market's.  The first
\* observation of either side returns no pair.
C1_PairIffBothObserved ==
    last.op = "book" =>
        \A m \in MarketsOf(Unwrap(last.book).asset_id) :
            /\ IsSome(last.ret) <=> { YesOf(m), NoOf(m) } \subseteq hist.observed
            /\ IsSome(last.ret) => Unwrap(last.ret).market_id = m

\* C1 witness: the update that completes market mA (its second token seen
\* for the first time) returns the pair while market mB is still half seen.
C1_Witness ==
    /\ last.op = "book"
    /\ IsSome(last.ret)
    /\ Unwrap(last.ret).market_id = "mA"
    /\ hist.observed = { 1, 2, 3 }
    /\ hist.overwritten = {}

\* C3: in a returned pair the side of the updated token is the snapshot of
\* this update and the other side is the latest earlier update received for
\* the counterpart token.
C3_PairSides ==
    (last.op = "book" /\ IsSome(last.ret)) =>
        LET b == Unwrap(last.book)
            p == Unwrap(last.ret)
            m == p.market_id
        IN  IF b.asset_id = YesOf(m)
            THEN p.yes_book = b /\ Some(p.no_book) = hist.latest[NoOf(m)]
            ELSE /\ b.asset_id = NoOf(m)
                 /\ p.no_book = b
                 /\ Some(p.yes_book) = hist.latest[YesOf(m)]

\* C3 witness: a pair for an update of YES token 1 whose NO side is the second,
\* different, update received for token 2.
C3_Witness ==
    /\ last.op = "book"
    /\ IsSome(last.ret)
    /\ Unwrap(last.book).asset_id = 1
    /\ 2 \in hist.overwritten
    /\ Unwrap(last.ret).no_book = BookUpdate(2, S495)
    /\ Unwrap(last.ret).yes_book = BookUpdate(1, S500)

\* C4: in a session that follows another, an update of a token whose market
\* has not had both tokens updated in this session returns no pair, and the
\* first detector call for a market in this session does not signal,
\* whatever the previous session observed and stored.
C4_SessionStateRebuilt ==
    (stream >= 2 /\ last.op = "book") =>
        /\ \A m \in MarketsOf(Unwrap(last.book).asset_id) :
              ~({ YesOf(m), NoOf(m) } \subseteq hist.observed) => ~IsSome(last.ret)
        /\ hist.first_detect => (Len(last.calls) >= 1 /\ ~last.calls[1].signal)

\* C4 witness: the second session's first detector call for market mA, on a
\* YES mid price of 0.494, after the previous session paired mA too.
C4_Witness ==
    /\ stream = 2
    /\ last.op = "book"
    /\ IsSome(last.ret)
    /\ last.market = "mA"
    /\ hist.first_detect
    /\ "mA" \in hist.prev_detected
    /\ last.calls[1].mid = Some(988)
    /\ ~last.calls[1].signal

\* C2 (as claimed): the start of a new session leaves trades_today as the
\* previous session left it.
C2_CounterKeptAcrossSessions ==
    [][last'.op = "scalp_new" => trades_today' = trades_today]_vars

\* The one detector call of the last DetectSignal step.
TheCall == last.calls[1]

\* C5 (as claimed): a detector call for a market that has a baseline, on a
\* book with both sides, returns true if and only if
\* |mid - baseline| / baseline >= threshold_pct, and leaves mid as baseline.
C5_SignalIffMoveAtLeastThreshold ==
    (last.op = "detect_signal" /\ IsSome(TheCall.baseline) /\ IsSome(TheCall.mid)) =>
        LET mid == Unwrap(TheCall.mid)
            baseline == Unwrap(TheCall.baseline)
        IN  /\ ~last.panicked
            /\ TheCall.signal <=>
                   (Abs(mid - baseline) * 1000 >= TheCall.threshold * baseline)
            /\ last_mid_price[last.market] = Some(mid)

\* The part of C5 the code keeps: the same, for a baseline other than 0.
DetectNonZeroBaseline ==
    (last.op = "detect_signal" /\ IsSome(TheCall.baseline) /\ IsSome(TheCall.mid)
        /\ Unwrap(TheCall.baseline) # 0) =>
        LET mid == Unwrap(TheCall.mid)
            baseline == Unwrap(TheCall.baseline)
        IN  /\ ~last.panicked
            /\ TheCall.signal <=>
                   (Abs(mid - baseline) * 1000 >= TheCall.threshold * baseline)
            /\ last_mid_price[last.market] = Some(mid)

\* C6: the first detector call for a market, on a book with both sides,
\* returns false and stores the mid price as the market's baseline.
C6_FirstCallNeverSignals ==
    (last.op = "detect_signal" /\ ~IsSome(TheCall.baseline) /\ IsSome(TheCall.mid)) =>
        /\ ~TheCall.signal
        /\ ~last.panicked
        /\ last_mid_price[last.market] = TheCall.mid

\* C6 witness: a first call for market mB on a mid price of 0.501 with the
\* threshold 0.002, after market mA got its baseline.
C6_Witness ==
    /\ last.op = "detect_signal"
    /\ last.market = "mB"
    /\ ~IsSome(TheCall.baseline)
    /\ TheCall.mid = Some(1002)
    /\ TheCall.threshold = ScalpThreshold1
    /\ IsSome(last_mid_price["mA"])
    /\ last_mid_price["mB"] = Some(1002)

\* C10: open_position adds exactly 1 to trades_today, close_position leaves
\* it as it is, with or without an open position.
C10_TradesTodayMonotone ==
    [][ /\ last'.op = "open_position" => trades_today' = trades_today + 1
        /\ last'.op = "close_position" => trades_today' = trades_today ]_vars

\* C10 witness: two positions were opened and both closed again; the counter
\* is still 2.
C10_Witness ==
    /\ last.op = "close_position"
    /\ trades_today = 2
    /\ \A m \in Markets : positions[m] = None

\* Best asks of the pair the last step returned, in ticks.
PairTotal(l) == Head(Unwrap(l.ret).yes_book.asks) + Head(Unwrap(l.ret).no_book.asks)

\* C7: an execution task is spawned only by the handling of a pair whose
\* profit_fraction = 1 - (yes_ask + no_ask) is at least the profit threshold
\* and whose yes_ask + no_ask is at most 1 - execution_spread; the spawned
\* task carries that pair's market and asks.
C7_SpawnOnlyThroughBothGates ==
    [][ Len(tasks') > Len(tasks) =>
          /\ last'.op = "book"
          /\ IsSome(last'.ret)
          /\ 1000 - PairTotal(last') >= MinProfitThreshold
          /\ PairTotal(last') <= 1000 - ArbitrageExecutionSpread
          /\ Len(tasks') = Len(tasks) + 1
          /\ tasks'[Len(tasks')].market_id = Unwrap(last'.ret).market_id
          /\ tasks'[Len(tasks')].yes_ask_price + tasks'[Len(tasks')].no_ask_price
                 = PairTotal(last') ]_vars

\* C7 witness: a pair with asks 0.495 + 0.495 = 0.990, on the boundary of the
\* execution gate, spawned the task now in flight.
C7_Witness ==
    /\ last.op = "book"
    /\ IsSome(last.ret)
    /\ PairTotal(last) = 990
    /\ last.spawned
    /\ Len(tasks) = 1
    /\ tasks[1].yes_ask_price = 495
    /\ tasks[1].no_ask_price = 495

\* C8 (as claimed): a failed execution attempt is reported to the risk
\* collaborator, is not retried, and leaves the detection loop as it was.
C8_FailureReported ==
    [][ last'.op = "task_err" =>
          /\ Len(last'.rm_calls) = 1
          /\ Len(tasks') = Len(tasks) - 1
          /\ UNCHANGED << pc, stream, market_map, books, last_mid_price, positions,
                          trades_today >> ]_vars

\* C9: a feed error or end closes the session without ending the process
\* and without touching the session's state; control is at the top of
\* main's loop, from where a session starts only with a new stream, the
\* fetched markets registered and an empty cache; updates are handled only
\* inside a session, never for a stream that ended.
C9_FeedFaultEndsSession ==
    /\ [][ last'.op \in { "stream_error", "stream_end" } =>
             /\ pc = "inner" /\ pc' = "top"
             /\ UNCHANGED << stream, market_map, books, last_mid_price, tasks >> ]_vars
    /\ [][ (pc = "top" /\ pc' = "inner") =>
             /\ stream' = stream + 1
             /\ \E markets \in MarketLists :
                  \A m \in Markets :
                     LET ks == { k \in 1..Len(markets) : markets[k].market_id = m } IN
                     IF ks = {} THEN market_map'[m] = None
                     ELSE \E k \in ks :
                            market_map'[m] = Some(<< markets[k].yes_token_id,
                                                     markets[k].no_token_id >>)
             /\ \A i \in Instruments : books'[i] = None ]_vars
    /\ [][ last'.op = "book" =>
             (pc = "inner" /\ stream' = stream /\ stream \notin hist.dead) ]_vars
    /\ [](pc = "top" => stream \in hist.dead \/ stream = 0)

\* C9 witness: after stream 1 failed, an update of stream 2 is handled.
C9_Witness ==
    /\ stream = 2
    /\ pc = "inner"
    /\ last.op = "book"
    /\ hist.dead = { 1 }

(***************************************************************************)
(* C11.  can_open_trade(max) returns true exactly when trades_today < max, *)
(* and as long as every open_position of a ScalpState was called right     *)
(* after can_open_trade returned true, trades_today does not exceed the    *)
(* max of those checks.                                                    *)
(***************************************************************************)
C11_BudgetRespected ==
    /\ last.op = "can_open_trade" => (last.ok <=> trades_today < last.arg)
    /\ hist.guarded => trades_today <= hist.cap

\* The budget of 2 was used up by guarded opens and the check now refuses.
C11_Witness ==
    /\ last.op = "can_open_trade" /\ last.arg = 2 /\ ~last.ok
    /\ hist.guarded /\ hist.cap = 2 /\ trades_today = 2

(***************************************************************************)
(* C12.  is_expired(market, max_hold) returns true exactly when the market *)
(* has an open position and now - opened_at >= max_hold; it returns false  *)
(* for a market without an open position, also after close_position.       *)
(***************************************************************************)
C12_ExpiredIffHeldMaxHold ==
    last.op = "is_expired" =>
        /\ last.ok <=> /\ IsSome(positions[last.market])
                       /\ now - Unwrap(positions[last.market]).opened_at >= last.arg
        /\ ~IsSome(positions[last.market]) => ~last.ok

\* The position has been held for exactly max_hold and is reported expired.
C12_Witness ==
    /\ last.op = "is_expired" /\ last.ok /\ last.arg = 2
    /\ IsSome(positions[last.market])
    /\ now - Unwrap(positions[last.market]).opened_at = 2

\* One unit earlier it is not.
C12_NotYetExpired ==
    /\ last.op = "is_expired" /\ ~last.ok /\ last.arg = 2
    /\ IsSome(positions[last.market])
    /\ now - Unwrap(positions[last.market]).opened_at = 1

(***************************************************************************)
(* C13.  Each market has at most one open ScalpPosition, whatever calls    *)
(* were made; an open_position on a market that already has one leaves the *)
(* position it has just opened as the only one.                            *)
(***************************************************************************)
C13_OnePositionPerMarket ==
    /\ \A m \in Markets : Len(positions[m]) <= 1
    /\ last.op = "open_position" =>
           /\ Len(positions[last.market]) = 1
           /\ positions[last.market][1].opened_at = now

\* open_position replaced a position opened earlier on the same market.
C13_Witness ==
    /\ last.op = "open_position" /\ last.had /\ now = 2
    /\ positions[last.market] = Some(ScalpPosition(500, 1, 2))

(***************************************************************************)
(* C15.  detect_signal on a YES book whose bid side or ask side is empty   *)
(* returns false without error and leaves the whole ScalpState as it was:  *)
(* every baseline (present or absent), every position and trades_today.    *)
(***************************************************************************)
EmptySide(book) == Len(book.bids) = 0 \/ Len(book.asks) = 0

C15_EmptySideNoEffect ==
    [][ (last'.op = "detect_signal" /\ EmptySide(Unwrap(last'.book))) =>
            /\ ~last'.calls[1].signal
            /\ ~last'.panicked /\ pc' = pc
            /\ UNCHANGED << last_mid_price, positions, trades_today >> ]_vars

\* The call was made on a book without bids while a baseline was stored.
C15_Witness ==
    /\ last.op = "detect_signal" /\ Unwrap(last.book).bids = << >>
    /\ last_mid_price[last.market] = Some(Dec(500))
    /\ \E m \in Markets : ~IsSome(last_mid_price[m])

(***************************************************************************)
(* C16.  close_position never fails and leaves the market without a        *)
(* position; on a market without an open position it changes nothing, so   *)
(* closing twice gives the state that closing once gives, also when the    *)
(* first call closed an open position.                                     *)
(***************************************************************************)
C16_CloseIdempotent ==
    /\ [][ last'.op = "close_position" =>
              /\ ~last'.panicked /\ pc' = pc
              /\ ~IsSome(positions'[last'.market])
              /\ (~IsSome(positions[last'.market]) \/ last'.twice # "") =>
                      UNCHANGED << last_mid_price, positions, trades_today >> ]_vars
    /\ [](\A m \in Markets :
              close_position(close_position(ScalpState_get, m), m)
                  = close_position(ScalpState_get, m))

\* The second of two calls in a row, the first of which closed a position.
C16_Witness ==
    /\ last.op = "close_position" /\ last.twice = "after_close" /\ ~last.had
    /\ trades_today = 2
    /\ \E m \in Markets : IsSome(positions[m])

(***************************************************************************)
(* C18.  detect_signal, open_position and close_position for one market    *)
(* leave the baseline and the open position of every other market as they  *)
(* were.                                                                   *)
(***************************************************************************)
C18_OtherMarketsUntouched ==
    [][ last'.op \in { "detect_signal", "open_position", "close_position" } =>
            \A b \in Markets \ { last'.market } :
                /\ last_mid_price'[b] = last_mid_price[b]
                /\ positions'[b] = positions[b] ]_vars

\* A position of one market was closed while the other market had a
\* baseline and an open position.
C18_Witness ==
    /\ last.op = "close_position" /\ last.had
    /\ \E b \in Markets \ { last.market } :
           IsSome(last_mid_price[b]) /\ IsSome(positions[b])

(***************************************************************************)
(* C19.  The number of markets with an open position never exceeds         *)
(* trades_today, and the two differ exactly when a position of this        *)
(* ScalpState was closed or was replaced by open_position.                 *)
(***************************************************************************)
OpenMarkets == { m \in Markets : IsSome(positions[m]) }

C19_OpenAtMostTrades ==
    /\ Cardinality(OpenMarkets) <= trades_today
    /\ trades_today - Cardinality(OpenMarkets) = hist.lost

\* One market has an open position after three trades, the last of which
\* replaced an open position.
C19_Witness ==
    /\ Cardinality(OpenMarkets) = 1 /\ trades_today = 3
    /\ last.op = "open_position" /\ last.had

(***************************************************************************)
(* C17.  The inner loop never waits for a spawned execution task: while    *)
(* the stream has updates the loop can take the next one whatever tasks    *)
(* are in flight.  A task works on the opportunity it was given when it    *)
(* was spawned: the loop does not alter that copy, and the task's end,     *)
(* with or without a RiskManager call, leaves the book cache, the market   *)
(* map and the ScalpState as they are.                                     *)
(***************************************************************************)
RecvAny == \E i \in Instruments, shape \in BookShapes : RecvBook(i, shape)

TaskStep == last'.op \in { "task_ok", "task_err" }

C14_YesNoDistinct ==
    \A m \in Markets :
        IsSome(market_map[m]) => Unwrap(market_map[m])[1] # Unwrap(market_map[m])[2]

(***************************************************************************)
(* C20.  With scalping enabled every pair is given to the momentum         *)
(* detector twice with the same YES book, with threshold 0.002 and then    *)
(* 0.003; the second call finds the baseline the first has just stored, so *)
(* its delta is 0 and it does not signal.                                  *)
(***************************************************************************)
C20_SecondCallNeverSignals ==
    (last.op = "book" /\ IsSome(last.ret) /\ enable_scalping) =>
        /\ Len(last.calls) = 2
        /\ last.calls[1].threshold = ScalpThreshold1
        /\ last.calls[2].threshold = ScalpThreshold2
        /\ last.calls[1].mid = mid_price(Unwrap(last.ret).yes_book)
        /\ last.calls[2].mid = last.calls[1].mid
        /\ last.calls[2].baseline = last.calls[1].mid
        /\ ~last.calls[2].panicked
        /\ ~last.calls[2].signal

(***************************************************************************)
(* C21.  detect_signal on a book with a best bid and a best ask always     *)
(* completes and returns a boolean, also when the baseline stored for the  *)
(* market is 0: the division by the baseline never fails.                  *)
(***************************************************************************)
C21_DetectAlwaysReturns ==
    (last.op = "detect_signal" /\ ~EmptySide(Unwrap(last.book))) =>
        /\ ~last.panicked
        /\ pc = "inner"
        /\ last_mid_price[last.market] = mid_price(Unwrap(last.book))
====
